---------------------------- MODULE Spec2Model ----------------------------
(***************************************************************************)
(* A model of src/extract_conversations.py: the rich-text decoder, the     *)
(* first-user-message reader, the workspace inferencer and the extraction  *)
(* pipeline that scans the key-value store.                                *)
(*                                                                         *)
(* Python values are tagged records:                                       *)
(*   [t |-> "none"]                    None (JSON null, SQL NULL)          *)
(*   [t |-> "int",  n |-> n]           an integer                          *)
(*   [t |-> "str",  s |-> chars]       a str, as its sequence of characters*)
(*                                     (text that is not a JSON document)  *)
(*   [t |-> "json", doc |-> value]     a str holding the JSON encoding of  *)
(*                                     value (what json.loads returns)     *)
(*   [t |-> "list", items |-> items]   a list                              *)
(*   [t |-> "dict", k |-> keys, v |-> values]  a dict, in insertion order, *)
(*                                     each key a sequence of characters   *)
(* A call's outcome is [exc |-> "none", val |-> value] when it returns and *)
(* [exc |-> <exception class>, val |-> PyNone] when it raises.             *)
(***************************************************************************)
EXTENDS Integers, Sequences, FiniteSets, TLC

VARIABLES
    rtIn,           \* extract_text_from_richtext: the argument richtext_json
    rtOut,          \* extract_text_from_richtext: the call's outcome
    wsIn,           \* get_workspace_from_uri: the argument code_block_data
    wsOut,          \* get_workspace_from_uri: the call's outcome
    store,          \* rows of cursorDiskKV matching 'composerData:%', in scan order
    pc,             \* position of extract_todays_conversations
    conn,           \* the sqlite3 connection: "none", "open" or "closed"
    idx,            \* index in store of the row the for loop is at
    bubbleIdx,      \* index of the stub get_first_user_message is at
    cur,            \* the locals of the loop body for the current row
    conversations,  \* the list conversations being built
    outcome,        \* the outcome of extract_todays_conversations
    exitAt          \* the position extract_todays_conversations left from

vars == <<rtIn, rtOut, wsIn, wsOut, store, pc, conn, idx, bubbleIdx, cur,
          conversations, outcome, exitAt>>

-----------------------------------------------------------------------------
(* Python values and outcomes *)

PyNone == [t |-> "none"]
PyInt(n) == [t |-> "int", n |-> n]
PyStr(s) == [t |-> "str", s |-> s]
JsonStr(d) == [t |-> "json", doc |-> d]
PyList(xs) == [t |-> "list", items |-> xs]
PyDict(ks, vs) == [t |-> "dict", k |-> ks, v |-> vs]
EmptyDict == PyDict(<<>>, <<>>)

(* The keys of the dicts the program reads *)

KType == <<"t", "y", "p", "e">>
KText == <<"t", "e", "x", "t">>
KChildren == <<"c", "h", "i", "l", "d", "r", "e", "n">>
KRoot == <<"r", "o", "o", "t">>
KOther == <<"o", "t", "h", "e", "r">>
KBubbleId == <<"b", "u", "b", "b", "l", "e", "I", "d">>
KRichText == <<"r", "i", "c", "h", "T", "e", "x", "t">>
KCreatedAt == <<"c", "r", "e", "a", "t", "e", "d", "A", "t">>
KLastUpdatedAt == <<"l", "a", "s", "t", "U", "p", "d", "a", "t", "e", "d", "A", "t">>
KComposerId == <<"c", "o", "m", "p", "o", "s", "e", "r", "I", "d">>
KName == <<"n", "a", "m", "e">>
KStatus == <<"s", "t", "a", "t", "u", "s">>
KHeaders == <<"f", "u", "l", "l", "C", "o", "n", "v", "e", "r", "s", "a", "t", "i", "o", "n", "H", "e", "a", "d", "e", "r", "s", "O", "n", "l", "y">>
KModelConfig == <<"m", "o", "d", "e", "l", "C", "o", "n", "f", "i", "g">>
KModelName == <<"m", "o", "d", "e", "l", "N", "a", "m", "e">>
KCodeBlockData == <<"c", "o", "d", "e", "B", "l", "o", "c", "k", "D", "a", "t", "a">>

Ret(v) == [exc |-> "none", val |-> v]
Raise(e) == [exc |-> e, val |-> PyNone]
Pending == [exc |-> "pending", val |-> PyNone]

\* key in d, for a dict d
Has(d, key) == \E i \in 1..Len(d.k) : d.k[i] = key

\* d[key], for a dict d that has the key
Item(d, key) == d.v[CHOOSE i \in 1..Len(d.k) : d.k[i] = key]

\* d.get(key, default), for a dict d
Get(d, key, default) == IF Has(d, key) THEN Item(d, key) ELSE default

\* bool(x), Python's truth value
Truthy(x) ==
    CASE x.t = "none" -> FALSE
      [] x.t = "int"  -> x.n # 0
      [] x.t = "str"  -> Len(x.s) > 0
      [] x.t = "json" -> TRUE
      [] x.t = "list" -> Len(x.items) > 0
      [] x.t = "dict" -> Len(x.k) > 0

IsStr(x) == x.t \in {"str", "json"}

\* json.loads(x): TypeError unless x is a str, JSONDecodeError unless the str
\* is a JSON document
json_loads(x) ==
    IF x.t = "json" THEN Ret(x.doc)
    ELSE IF x.t = "str" THEN Raise("JSONDecodeError")
    ELSE Raise("TypeError")

-----------------------------------------------------------------------------
(* Character sequences *)

Whitespace == {" ", "\t", "\n"}

RECURSIVE lstrip(_)
lstrip(s) == IF s # <<>> /\ Head(s) \in Whitespace THEN lstrip(Tail(s)) ELSE s

RECURSIVE rstrip(_)
rstrip(s) ==
    IF s # <<>> /\ s[Len(s)] \in Whitespace
    THEN rstrip(SubSeq(s, 1, Len(s) - 1))
    ELSE s

\* s.strip()
strip(s) == rstrip(lstrip(s))

\* sep.join(texts), texts a sequence of character sequences
RECURSIVE join(_, _)
join(sep, texts) ==
    IF texts = <<>> THEN <<>>
    ELSE IF Len(texts) = 1 THEN texts[1]
    ELSE texts[1] \o sep \o join(sep, Tail(texts))

\* s.startswith(prefix)
startswith(s, prefix) ==
    Len(s) >= Len(prefix) /\ SubSeq(s, 1, Len(prefix)) = prefix

-----------------------------------------------------------------------------
(* extract_text_from_richtext *)

TextTag == PyStr(KText)

\* The state of the traversal: the list texts, and the exception that ended it.
RECURSIVE extract_text_nodes(_, _)
RECURSIVE extract_children(_, _)

\* extract_text_nodes(node), continuing from the traversal state acc
extract_text_nodes(node, acc) ==
    IF acc.exc # "none" THEN acc
    ELSE IF node.t # "dict" THEN [acc EXCEPT !.exc = "AttributeError"]
    ELSE
      LET own == IF Get(node, KType, PyNone) = TextTag /\ Has(node, KText)
                 THEN [acc EXCEPT !.texts = Append(@, Item(node, KText))]
                 ELSE acc
          children == Get(node, KChildren, PyList(<<>>))
      IN  CASE children.t = "list" -> extract_children(children.items, own)
            \* iterating a dict yields its keys, iterating a str its
            \* characters: the first one has no .get
            [] children.t = "dict" ->
                 IF Len(children.k) = 0 THEN own
                 ELSE [own EXCEPT !.exc = "AttributeError"]
            [] children.t = "str" ->
                 IF Len(children.s) = 0 THEN own
                 ELSE [own EXCEPT !.exc = "AttributeError"]
            [] children.t = "json" -> [own EXCEPT !.exc = "AttributeError"]
            [] OTHER -> [own EXCEPT !.exc = "TypeError"]

\* for child in children: extract_text_nodes(child)
extract_children(children, acc) ==
    IF children = <<>> \/ acc.exc # "none" THEN acc
    ELSE extract_children(Tail(children), extract_text_nodes(Head(children), acc))

\* KRoot in data
RootIn(data) ==
    CASE data.t = "dict" -> Ret(Has(data, KRoot))
      [] data.t = "list" -> Ret(\E i \in 1..Len(data.items) :
                                    data.items[i] = PyStr(KRoot))
      [] data.t = "str" -> Ret(\E i \in 1..Len(data.s) :
                                    SubSeq(data.s, i, i + 3) = KRoot)
      [] OTHER -> Raise("TypeError")

extract_text_from_richtext(richtext_json) ==
    LET loaded == json_loads(richtext_json)
        data == loaded.val
        hasRoot == RootIn(data)
        start == [exc |-> "none", texts |-> <<>>]
        walked == IF hasRoot.val
                  THEN IF data.t = "dict"
                       THEN extract_text_nodes(Item(data, KRoot), start)
                       ELSE [start EXCEPT !.exc = "TypeError"]  \* data[KRoot]
                  ELSE start
        caught == {"JSONDecodeError", "KeyError", "TypeError"}
    IN  IF loaded.exc # "none"
        THEN (IF loaded.exc \in caught THEN Ret(PyStr(<<>>)) ELSE Raise(loaded.exc))
        ELSE IF hasRoot.exc # "none"
        THEN (IF hasRoot.exc \in caught THEN Ret(PyStr(<<>>)) ELSE Raise(hasRoot.exc))
        ELSE IF walked.exc # "none"
        THEN (IF walked.exc \in caught THEN Ret(PyStr(<<>>)) ELSE Raise(walked.exc))
        \* " ".join(texts) raises TypeError on an item that is not a str (the
        \* inputs hold no text that is itself a JSON document)
        ELSE IF \E i \in 1..Len(walked.texts) : ~IsStr(walked.texts[i])
        THEN Ret(PyStr(<<>>))
        ELSE Ret(PyStr(strip(join(<<" ">>,
                        [i \in 1..Len(walked.texts) |-> walked.texts[i].s]))))

-----------------------------------------------------------------------------
(* get_workspace_from_uri *)

FilePrefix == <<"f", "i", "l", "e", ":", "/", "/", "/">>
FileScheme == <<"f", "i", "l", "e", ":", "/", "/">>
WorkspaceSegment == <<"w", "o", "r", "k", "s", "p", "a", "c", "e">>

\* s.replace(old, new): every non-overlapping occurrence, left to right
RECURSIVE replace(_, _, _)
replace(s, old, new) ==
    IF s = <<>> THEN <<>>
    ELSE IF startswith(s, old)
    THEN new \o replace(SubSeq(s, Len(old) + 1, Len(s)), old, new)
    ELSE <<Head(s)>> \o replace(Tail(s), old, new)

\* s.split(sep), sep one character
RECURSIVE split(_, _)
split(s, sep) ==
    IF \A i \in 1..Len(s) : s[i] # sep THEN <<s>>
    ELSE LET i == CHOOSE j \in 1..Len(s) :
                      s[j] = sep /\ \A k \in 1..(j - 1) : s[k] # sep
         IN  <<SubSeq(s, 1, i - 1)>> \o split(SubSeq(s, i + 1, Len(s)), sep)

\* workspace_of_key keeping one segment after "workspace" instead of two
workspace_one_segment(uri_key) ==
    LET path == replace(uri_key, FileScheme, <<>>)
        parts == split(path, "/")
        hits == {j \in 1..Len(parts) :
                    parts[j] = WorkspaceSegment /\ (j - 1) + 2 < Len(parts)}
    IN  IF hits # {}
        THEN LET j == CHOOSE h \in hits : \A g \in hits : h <= g
             IN  PyStr(join(<<"/">>, SubSeq(parts, 1, j + 1)))
        ELSE IF Len(parts) > 4
        THEN PyStr(join(<<"/">>, SubSeq(parts, 1, 5)))
        ELSE PyNone

\* The body of the loop over the keys, for a key that starts with the
\* file-URI prefix: the workspace the key yields, or PyNone when the loop
\* goes on to the next key.  parts[j] here is parts[j - 1] in the source.
workspace_of_key(uri_key) ==
    LET path == replace(uri_key, FileScheme, <<>>)
        parts == split(path, "/")
        hits == {j \in 1..Len(parts) :
                    parts[j] = WorkspaceSegment /\ (j - 1) + 2 < Len(parts)}
    IN  IF hits # {}
        THEN LET j == CHOOSE h \in hits : \A g \in hits : h <= g
             IN  PyStr(join(<<"/">>, SubSeq(parts, 1, j + 2)))
        ELSE IF Len(parts) > 4
        THEN PyStr(join(<<"/">>, SubSeq(parts, 1, 5)))
        ELSE PyNone

\* scan_keys returning None after the first key with the file-URI prefix
RECURSIVE scan_first_key_only(_)
scan_first_key_only(keys) ==
    IF keys = <<>> THEN PyNone
    ELSE IF startswith(Head(keys), FilePrefix)
    THEN workspace_of_key(Head(keys))
    ELSE scan_first_key_only(Tail(keys))

\* for uri_key in keys: ... return None
RECURSIVE scan_keys(_)
scan_keys(keys) ==
    IF keys = <<>> THEN PyNone
    ELSE IF startswith(Head(keys), FilePrefix)
            /\ workspace_of_key(Head(keys)) # PyNone
    THEN workspace_of_key(Head(keys))
    ELSE scan_keys(Tail(keys))

get_workspace_from_uri(code_block_data) ==
    IF code_block_data.t # "dict" THEN Raise("AttributeError")  \* .keys()
    ELSE Ret(scan_keys(code_block_data.k))

-----------------------------------------------------------------------------
(* Inputs of the two pure functions *)

MaxChildren == 2    \* children per rich-text node
MaxKeys == 2        \* keys per codeBlockData mapping

SeqsUpTo(S, n) == UNION {[1..k -> S] : k \in 0..n}

TextNode(s) == PyDict(<<KType, KText>>, <<TextTag, PyStr(s)>>)
Paragraph(cs) ==
    PyDict(<<KType, KChildren>>, <<PyStr(<<"p">>), PyList(cs)>>)
TextWithChildren(s, cs) ==
    PyDict(<<KType, KText, KChildren>>, <<TextTag, PyStr(s), PyList(cs)>>)

Leaves ==
    { TextNode(<<"a">>),
      TextNode(<<" ", "b", " ">>),
      PyDict(<<KType, KText>>, <<PyStr(<<"p">>), PyStr(<<"x">>)>>),
      PyDict(<<KType>>, <<TextTag>>),
      PyDict(<<KType, KText>>, <<TextTag, PyInt(5)>>),
      PyDict(<<KChildren>>, <<PyNone>>),
      PyDict(<<KChildren>>, <<PyStr(<<"a", "b">>)>>),
      PyDict(<<KChildren>>, <<PyDict(<<KOther>>, <<PyInt(1)>>)>>),
      PyInt(5),
      PyNone }

ChildPool ==
    Leaves \cup { Paragraph(<<TextNode(<<"c">>)>>),
                  TextWithChildren(<<"d">>, <<TextNode(<<"e">>)>>) }

Roots ==
    Leaves
    \cup {Paragraph(cs) : cs \in SeqsUpTo(ChildPool, MaxChildren)}
    \cup {TextWithChildren(<<"t">>, cs) : cs \in SeqsUpTo(ChildPool, MaxChildren)}

RichtextInputs ==
    {JsonStr(PyDict(<<KRoot>>, <<r>>)) : r \in Roots}
    \cup { JsonStr(EmptyDict),
           JsonStr(PyDict(<<KOther>>, <<TextNode(<<"a">>)>>)),
           JsonStr(PyList(<<>>)),
           JsonStr(PyList(<<PyStr(KRoot)>>)),
           JsonStr(PyStr(KRoot)),
           JsonStr(PyInt(5)),
           JsonStr(PyNone),
           PyStr(<<"{">>),
           PyStr(<<>>),
           PyInt(5),
           PyNone,
           EmptyDict }

UriProjFile ==
    <<"f", "i", "l", "e", ":", "/", "/", "/", "U", "s", "e", "r", "s", "/",
      "a", "/", "w", "o", "r", "k", "s", "p", "a", "c", "e", "/", "p", "r",
      "o", "j", "/", "s", "r", "c", "/", "x", ".", "p", "y">>
UriThree == <<"f", "i", "l", "e", ":", "/", "/", "/", "a", "/", "b", "/", "c">>
UriFive ==
    <<"f", "i", "l", "e", ":", "/", "/", "/", "a", "/", "b", "/", "c", "/",
      "d", "/", "e">>
UriShortWorkspace ==
    <<"f", "i", "l", "e", ":", "/", "/", "/", "a", "/", "w", "o", "r", "k",
      "s", "p", "a", "c", "e", "/", "p">>
UriHttp ==
    <<"h", "t", "t", "p", ":", "/", "/", "x", "/", "w", "o", "r", "k", "s",
      "p", "a", "c", "e", "/", "a", "/", "b">>
UriDeepWorkspace ==
    <<"f", "i", "l", "e", ":", "/", "/", "/", "w", "/", "w", "o", "r", "k",
      "s", "p", "a", "c", "e", "/", "p", "/", "q", "/", "r">>
UriTwoSlash ==
    <<"f", "i", "l", "e", ":", "/", "/", "h", "/", "a", "/", "b", "/", "c",
      "/", "d">>
UriEmbedded ==
    <<"f", "i", "l", "e", ":", "/", "/", "/", "a", "/", "f", "i", "l", "e",
      ":", "/", "/", "b", "/", "c", "/", "d", "/", "e">>

UriKeys ==
    { UriProjFile, UriThree, UriFive, UriShortWorkspace, UriHttp,
      UriDeepWorkspace, UriTwoSlash, UriEmbedded }

\* The keys of a dict are distinct.
KeyLists ==
    {ks \in SeqsUpTo(UriKeys, MaxKeys) :
        \A i, j \in 1..Len(ks) : i # j => ks[i] # ks[j]}

Mapping(ks) == PyDict(ks, [i \in 1..Len(ks) |-> EmptyDict])

WorkspaceInputs ==
    {Mapping(ks) : ks \in KeyLists} \cup {PyNone, PyList(<<>>), PyInt(5)}

-----------------------------------------------------------------------------
(* get_first_user_message *)

TruncLimit == 500
EllipsisMarker == <<".", ".", ".">>

\* truncate with the comparison of the limit off by one
truncate_from_limit(text) ==
    IF Len(text) >= TruncLimit
    THEN SubSeq(text, 1, TruncLimit) \o EllipsisMarker
    ELSE text

\* text[:500] + "..." if len(text) > 500 else text
truncate(text) ==
    IF Len(text) > TruncLimit
    THEN SubSeq(text, 1, TruncLimit) \o EllipsisMarker
    ELSE text

Digits == <<"0", "1", "2", "3", "4", "5", "6", "7", "8", "9">>

RECURSIVE decimal(_)
decimal(n) ==
    IF n < 10 THEN <<Digits[n + 1]>>
    ELSE decimal(n \div 10) \o <<Digits[(n % 10) + 1]>>

\* What an f-string puts for {x}: str(x), for the values a key is built from
format_value(x) ==
    CASE x.t = "str" -> x.s
      [] x.t = "int" -> IF x.n < 0 THEN <<"-">> \o decimal(-x.n) ELSE decimal(x.n)
      [] OTHER -> <<"N", "o", "n", "e">>

\* f"bubbleId:{composer_id}:{bubble_id}"
bubble_key(composer_id, bubble_id) ==
    <<"b", "u", "b", "b", "l", "e", "I", "d", ":">> \o format_value(composer_id)
        \o <<":">> \o format_value(bubble_id)

\* cursor.fetchone() of SELECT value FROM cursorDiskKV WHERE key = ?, over the
\* rows of table: the row's value, or no row
fetchone(table, key) ==
    IF \E r \in table : r.key = key
    THEN [row |-> TRUE, value |-> (CHOOSE r \in table : r.key = key).value]
    ELSE [row |-> FALSE, value |-> PyNone]

\* One iteration of the loop over bubbles.  fault: the lookup raises
\* sqlite3.Error.  The result is "next" (the loop goes on), "return" (with the
\* local text and the value returned) or "raise".
bubble_step(table, composer_id, bubble, fault) ==
    LET next == [kind |-> "next", exc |-> "none", text |-> <<>>, val |-> <<>>]
        raise(e) == [kind |-> "raise", exc |-> e, text |-> <<>>, val |-> <<>>]
        bubble_id == Get(bubble, KBubbleId, PyNone)
        fetched == fetchone(table, bubble_key(composer_id, bubble_id))
        loaded == json_loads(fetched.value)
        bubble_data == loaded.val
        richtext == Get(bubble_data, KRichText, PyStr(<<>>))
        decoded == extract_text_from_richtext(richtext)
        text == decoded.val.s
    IN  IF bubble.t # "dict" THEN raise("AttributeError")       \* bubble.get
        ELSE IF Get(bubble, KType, PyNone) # PyInt(1) THEN next
        ELSE IF ~Truthy(bubble_id) THEN next
        ELSE IF fault THEN raise("sqlite3.Error")               \* conn.execute
        ELSE IF ~(fetched.row /\ Truthy(fetched.value)) THEN next
        ELSE IF loaded.exc \in {"JSONDecodeError", "TypeError"} THEN next
        ELSE IF bubble_data.t # "dict" THEN raise("AttributeError")
        ELSE IF ~Truthy(richtext) THEN next
        ELSE IF decoded.exc \in {"JSONDecodeError", "TypeError"} THEN next
        ELSE IF decoded.exc # "none" THEN raise(decoded.exc)
        ELSE IF text = <<>> THEN next
        ELSE [kind |-> "return", exc |-> "none", text |-> text,
              val |-> truncate(text)]

\* iter(x): the items a for loop over x visits, or TypeError
iterate(x) ==
    CASE x.t = "list" -> Ret(x.items)
      [] x.t = "dict" -> Ret([i \in 1..Len(x.k) |-> PyStr(x.k[i])])
      [] x.t = "str"  -> Ret([i \in 1..Len(x.s) |-> PyStr(<<x.s[i]>>)])
      \* a str holding a JSON document is not empty: its first character
      [] x.t = "json" -> Ret(<<PyStr(<<"?">>)>>)
      [] OTHER -> Raise("TypeError")

-----------------------------------------------------------------------------
(* extract_todays_conversations *)

DayMs == 86400000       \* timedelta(days=1), in milliseconds
TargetDay == 2          \* target_date, in days since the epoch (local time)

start_ms == TargetDay * DayMs
end_ms == start_ms + DayMs

\* start_ms <= t < end_ms, for an int t
in_window(t) == start_ms <= t /\ t < end_ms

\* start_ms <= x < end_ms: TypeError unless x is a number
window_test(x) ==
    IF x.t = "int" THEN Ret(in_window(x.n)) ELSE Raise("TypeError")

\* datetime.fromtimestamp(created_at / 1000).strftime("%H:%M"), the local
\* zone taken as UTC
hhmm(created_at) ==
    LET minutes == (created_at \div 60000) % 1440
        h == minutes \div 60
        m == minutes % 60
    IN  <<Digits[(h \div 10) + 1], Digits[(h % 10) + 1], ":",
          Digits[(m \div 10) + 1], Digits[(m % 10) + 1]>>

Untitled ==
    PyStr(<<"U", "n", "t", "i", "t", "l", "e", "d", " ", "c", "o", "n", "v",
            "e", "r", "s", "a", "t", "i", "o", "n">>)
Unknown == PyStr(<<"u", "n", "k", "n", "o", "w", "n">>)

\* Lines 113-136 of the loop body for one row value: "continue", "raise", or
\* "go" with the locals the rest of the body uses.
load_record(value) ==
    LET skip == [kind |-> "continue", exc |-> "none"]
        raise(e) == [kind |-> "raise", exc |-> e]
        loaded == json_loads(value)
        data == loaded.val
        created_at == Get(data, KCreatedAt, PyInt(0))
        last_updated == Get(data, KLastUpdatedAt, PyInt(0))
        first == window_test(created_at)
        second == window_test(last_updated)
        model_config == Get(data, KModelConfig, EmptyDict)
    IN  IF ~Truthy(value) THEN skip
        ELSE IF loaded.exc = "JSONDecodeError" THEN skip
        ELSE IF loaded.exc # "none" THEN raise(loaded.exc)
        ELSE IF data.t # "dict" THEN raise("AttributeError")     \* data.get
        ELSE IF first.exc # "none" THEN raise(first.exc)
        ELSE IF ~first.val /\ second.exc # "none" THEN raise(second.exc)
        ELSE IF ~(first.val \/ second.val) THEN skip
        ELSE IF model_config.t # "dict" THEN raise("AttributeError")
        ELSE [kind |-> "go", exc |-> "none",
              composer_id |-> Get(data, KComposerId, PyStr(<<>>)),
              name |-> Get(data, KName, Untitled),
              status |-> Get(data, KStatus, Unknown),
              bubbles |-> Get(data, KHeaders, PyList(<<>>)),
              model_name |-> Get(model_config, KModelName, Unknown),
              code_block_data |-> Get(data, KCodeBlockData, EmptyDict),
              created_at |-> created_at,
              text |-> <<>>,
              first_message |-> <<>>]

\* The dict appended to conversations (lines 145-157).  row, the index of the
\* row in the scan, is not a key of the dict: it records which row the
\* summary was built from.
summary(locals, workspace, row) ==
    [id |-> locals.composer_id,
     name |-> locals.name,
     created_at |-> IF Truthy(locals.created_at)
                    THEN PyStr(hhmm(locals.created_at.n)) ELSE Unknown,
     timestamp_ms |-> locals.created_at,
     status |-> locals.status,
     model |-> locals.model_name,
     message_count |-> PyInt(Len(iterate(locals.bubbles).val)),
     first_message |-> PyStr(locals.first_message),
     workspace |-> workspace,
     row |-> row]

\* insert_sorted placing x before the items of equal timestamp
RECURSIVE insert_before_ties(_, _)
insert_before_ties(sorted, x) ==
    IF sorted = <<>> THEN <<x>>
    ELSE IF sorted[Len(sorted)].timestamp_ms.n < x.timestamp_ms.n
    THEN Append(sorted, x)
    ELSE Append(insert_before_ties(SubSeq(sorted, 1, Len(sorted) - 1), x),
                sorted[Len(sorted)])

\* conversations.sort(key=lambda x: x.get("timestamp_ms", 0)): stable, ascending
RECURSIVE insert_sorted(_, _)
insert_sorted(sorted, x) ==
    IF sorted = <<>> THEN <<x>>
    ELSE IF sorted[Len(sorted)].timestamp_ms.n <= x.timestamp_ms.n
    THEN Append(sorted, x)
    ELSE Append(insert_sorted(SubSeq(sorted, 1, Len(sorted) - 1), x),
                sorted[Len(sorted)])

RECURSIVE sort_by_timestamp(_)
sort_by_timestamp(convs) ==
    IF convs = <<>> THEN <<>>
    ELSE insert_sorted(sort_by_timestamp(SubSeq(convs, 1, Len(convs) - 1)),
                       convs[Len(convs)])

-----------------------------------------------------------------------------
(* The store: the bubbleId rows, and the composerData rows a scan returns *)

MaxBubbles == 2     \* stubs per conversation record
MaxRecords == 2     \* composerData rows in the store

ComposerId == PyStr(<<"c">>)

\* Text of n characters; the characters past the limit differ from the rest
LongText(n) == [i \in 1..n |-> IF i > TruncLimit THEN "z" ELSE "a"]

RichDoc(text) == JsonStr(PyDict(<<KRoot>>, <<Paragraph(<<TextNode(text)>>)>>))
Body(richtext) == JsonStr(PyDict(<<KRichText>>, <<richtext>>))

BubbleRow(id, value) == [key |-> bubble_key(ComposerId, PyStr(id)), value |-> value]

BubbleTable ==
    { BubbleRow(<<"h", "i">>, Body(RichDoc(<<"h", "i">>))),
      BubbleRow(<<"y", "o">>, Body(RichDoc(<<"y", "o">>))),
      BubbleRow(<<"n", "l">>, PyNone),
      BubbleRow(<<"e", "m">>, PyStr(<<>>)),
      BubbleRow(<<"b", "j">>, PyStr(<<"{">>)),
      BubbleRow(<<"l", "s">>, JsonStr(PyList(<<>>))),
      BubbleRow(<<"n", "r">>, JsonStr(EmptyDict)),
      BubbleRow(<<"r", "0">>, Body(PyStr(<<>>))),
      BubbleRow(<<"r", "i">>, Body(PyInt(5))),
      BubbleRow(<<"r", "b">>, Body(PyStr(<<"{">>))),
      BubbleRow(<<"r", "e">>, Body(RichDoc(<<" ", " ">>))),
      BubbleRow(<<"r", "x">>, Body(JsonStr(PyDict(<<KRoot>>, <<PyInt(5)>>)))),
      BubbleRow(<<"L", "0">>, Body(RichDoc(LongText(TruncLimit)))),
      BubbleRow(<<"L", "1">>, Body(RichDoc(LongText(TruncLimit + 1)))),
      BubbleRow(<<"L", "2">>, Body(RichDoc(LongText(TruncLimit + 40)))) }

UserStub(id) == PyDict(<<KType, KBubbleId>>, <<PyInt(1), PyStr(id)>>)
AssistantStub == PyDict(<<KType, KBubbleId>>, <<PyInt(2), PyStr(<<"h", "i">>)>>)

StubIds ==
    { <<"h", "i">>, <<"y", "o">>, <<"n", "l">>, <<"e", "m">>, <<"b", "j">>,
      <<"l", "s">>, <<"n", "r">>, <<"r", "0">>, <<"r", "i">>, <<"r", "b">>,
      <<"r", "e">>, <<"r", "x">>, <<"L", "0">>, <<"L", "1">>, <<"L", "2">>,
      <<"m", "i">>, <<>> }

Stubs ==
    {UserStub(id) : id \in StubIds}
    \cup { AssistantStub,
           PyDict(<<KType>>, <<PyInt(1)>>),
           PyDict(<<KBubbleId>>, <<PyStr(<<"h", "i">>)>>),
           PyInt(5) }

BubblesInputs ==
    {PyList(bs) : bs \in SeqsUpTo(Stubs, MaxBubbles)}
    \cup {PyNone, PyInt(5), EmptyDict, PyStr(<<"h", "i">>)}

Absent == [t |-> "absent"]

\* The dict of the pairs <<key, value>> whose value is not Absent
MakeDict(pairs) ==
    LET present == SelectSeq(pairs, LAMBDA q : q[2] # Absent)
    IN  PyDict([i \in 1..Len(present) |-> present[i][1]],
               [i \in 1..Len(present) |-> present[i][2]])

ModelConfig == PyDict(<<KModelName>>, <<PyStr(<<"g", "p", "t">>)>>)

ConversationRecord(created, updated, bubbles, model_config, code_block_data) ==
    MakeDict(<< <<KComposerId, ComposerId>>,
                <<KName, PyStr(<<"F", "i", "x">>)>>,
                <<KStatus, PyStr(<<"d", "o", "n", "e">>)>>,
                <<KCreatedAt, created>>,
                <<KLastUpdatedAt, updated>>,
                <<KHeaders, bubbles>>,
                <<KModelConfig, model_config>>,
                <<KCodeBlockData, code_block_data>> >>)

Noon == start_ms + (14 * 60 + 5) * 60000

RecordWithBubbles(bubbles) ==
    ConversationRecord(PyInt(Noon), Absent, bubbles, ModelConfig, Absent)

TwoStubs == PyList(<<AssistantStub, UserStub(<<"h", "i">>)>>)

RecordWithTimes(created, updated) ==
    ConversationRecord(created, updated, TwoStubs, ModelConfig,
                       Mapping(<<UriFive>>))

\* createdAt and lastUpdatedAt around the two ends of the window
TimedRecords ==
    { RecordWithTimes(PyInt(start_ms), Absent),
      RecordWithTimes(PyInt(end_ms - 1), Absent),
      RecordWithTimes(PyInt(Noon), PyInt(end_ms)),
      RecordWithTimes(PyInt(start_ms - 1), Absent),
      RecordWithTimes(PyInt(end_ms), Absent),
      RecordWithTimes(Absent, PyInt(start_ms)),
      RecordWithTimes(Absent, PyInt(end_ms)),
      RecordWithTimes(PyInt(start_ms - 1), PyInt(end_ms - 1)),
      RecordWithTimes(PyInt(start_ms - 1), PyInt(end_ms)),
      RecordWithTimes(PyInt(end_ms), PyInt(Noon)),
      RecordWithTimes(Absent, Absent) }

\* Records with a field of the wrong type, or left out
OddRecords ==
    { RecordWithTimes(PyStr(<<"x">>), PyInt(Noon)),
      RecordWithTimes(PyNone, PyInt(Noon)),
      RecordWithTimes(PyInt(Noon), PyStr(<<"x">>)),
      RecordWithTimes(PyInt(end_ms), PyNone),
      ConversationRecord(PyInt(Noon), Absent, TwoStubs, PyNone, Absent),
      ConversationRecord(PyInt(Noon), Absent, TwoStubs, ModelConfig, PyNone),
      ConversationRecord(PyInt(Noon), Absent, PyNone, ModelConfig, Absent),
      ConversationRecord(PyInt(Noon), Absent, Absent, Absent, Absent),
      PyDict(<<KLastUpdatedAt>>, <<PyInt(Noon)>>),
      PyList(<<>>),
      PyNone }

\* The value column of a composerData row
RowValues ==
    {JsonStr(d) : d \in TimedRecords \cup OddRecords}
    \cup {PyNone, PyStr(<<>>), PyStr(<<"{">>)}

\* Rows that all qualify, with equal, distinct and missing creation times
SortRows ==
    { JsonStr(RecordWithTimes(PyInt(Noon), Absent)),
      JsonStr(RecordWithTimes(PyInt(start_ms), Absent)),
      JsonStr(RecordWithTimes(Absent, PyInt(start_ms))) }

StoreInputs ==
    SeqsUpTo(RowValues, MaxRecords) \cup SeqsUpTo(SortRows, MaxRecords + 1)

-----------------------------------------------------------------------------
(* The actions of extract_todays_conversations *)

\* Leaving extract_todays_conversations with outcome out from position at
leave(out, at) ==
    /\ pc' = "done"
    /\ outcome' = out
    /\ exitAt' = at

functionVars == <<rtIn, rtOut, wsIn, wsOut>>

\* Lines 88-92: the database file exists, or it does not
CheckDbPath ==
    /\ pc = "start"
    /\ \E exists \in BOOLEAN :
          IF exists
          THEN pc' = "connect" /\ UNCHANGED <<outcome, exitAt>>
          ELSE leave(Ret(<<>>), "db_missing")
    /\ UNCHANGED <<functionVars, store, conn, idx, bubbleIdx, cur, conversations>>

\* Line 107: sqlite3.connect opens the connection, or raises sqlite3.Error
Connect ==
    /\ pc = "connect"
    /\ \E fault \in BOOLEAN :
          IF fault
          THEN leave(Ret(<<>>), "connect") /\ UNCHANGED conn
          ELSE pc' = "scan" /\ conn' = "open" /\ UNCHANGED <<outcome, exitAt>>
    /\ UNCHANGED <<functionVars, store, idx, bubbleIdx, cur, conversations>>

\* Lines 108-112: the SELECT over composerData:% and fetchall, or sqlite3.Error
MainScan ==
    /\ pc = "scan"
    /\ \E fault \in BOOLEAN :
          IF fault
          THEN leave(Ret(<<>>), "scan") /\ UNCHANGED idx
          ELSE pc' = "loop" /\ idx' = 1 /\ UNCHANGED <<outcome, exitAt>>
    /\ UNCHANGED <<functionVars, store, conn, bubbleIdx, cur, conversations>>

\* Lines 113-136 for the row at idx
LoadRecord ==
    /\ pc = "loop"
    /\ idx <= Len(store)
    /\ LET r == load_record(store[idx])
       IN  CASE r.kind = "continue" ->
                  /\ idx' = idx + 1
                  /\ UNCHANGED <<pc, outcome, exitAt, cur, bubbleIdx>>
             [] r.kind = "raise" ->
                  /\ leave(Raise(r.exc), "load")
                  /\ UNCHANGED <<idx, cur, bubbleIdx>>
             [] r.kind = "go" ->
                  /\ pc' = "bubbles"
                  /\ cur' = r
                  /\ bubbleIdx' = 1
                  /\ UNCHANGED <<idx, outcome, exitAt>>
    /\ UNCHANGED <<functionVars, store, conn, conversations>>

\* Line 139, get_first_user_message: the for loop at the stub bubbleIdx.  A
\* sqlite3.Error of the lookup reaches the handler of lines 161-163.
FirstMessageStep ==
    /\ pc = "bubbles"
    /\ \E fault \in BOOLEAN :
          LET items == iterate(cur.bubbles)
              r == bubble_step(BubbleTable, cur.composer_id,
                               items.val[bubbleIdx], fault)
          IN  IF items.exc # "none"
              THEN leave(Raise(items.exc), "bubbles") /\ UNCHANGED <<cur, bubbleIdx>>
              ELSE IF bubbleIdx > Len(items.val)
              THEN pc' = "finish" /\ UNCHANGED <<cur, bubbleIdx, outcome, exitAt>>
              ELSE CASE r.kind = "next" ->
                          /\ bubbleIdx' = bubbleIdx + 1
                          /\ UNCHANGED <<pc, cur, outcome, exitAt>>
                     [] r.kind = "return" ->
                          /\ pc' = "finish"
                          /\ cur' = [cur EXCEPT !.text = r.text,
                                                !.first_message = r.val]
                          /\ UNCHANGED <<bubbleIdx, outcome, exitAt>>
                     [] r.kind = "raise" ->
                          /\ leave(IF r.exc = "sqlite3.Error"
                                   THEN Ret(<<>>) ELSE Raise(r.exc), "bubbles")
                          /\ UNCHANGED <<cur, bubbleIdx>>
    /\ UNCHANGED <<functionVars, store, conn, idx, conversations>>

\* Lines 142-157: the workspace, the summary, the append
FinishRecord ==
    /\ pc = "finish"
    /\ LET ws == get_workspace_from_uri(cur.code_block_data)
       IN  IF ws.exc # "none"
           THEN leave(Raise(ws.exc), "finish") /\ UNCHANGED <<idx, conversations>>
           ELSE /\ conversations' = Append(conversations, summary(cur, ws.val, idx))
                /\ idx' = idx + 1
                /\ pc' = "loop"
                /\ UNCHANGED <<outcome, exitAt>>
    /\ UNCHANGED <<functionVars, store, conn, bubbleIdx, cur>>

\* Lines 159-168, after the last row: close, sort, return
CloseAndReturn ==
    /\ pc = "loop"
    /\ idx > Len(store)
    /\ conn' = "closed"
    /\ conversations' = sort_by_timestamp(conversations)
    /\ leave(Ret(sort_by_timestamp(conversations)), "end")
    /\ UNCHANGED <<functionVars, store, idx, bubbleIdx, cur>>

Next ==
    \/ CheckDbPath
    \/ Connect
    \/ MainScan
    \/ LoadRecord
    \/ FirstMessageStep
    \/ FinishRecord
    \/ CloseAndReturn

FunctionsIdle ==
    /\ rtIn = PyNone
    /\ rtOut = Pending
    /\ wsIn = PyNone
    /\ wsOut = Pending

PipelineStart ==
    /\ pc = "start"
    /\ conn = "none"
    /\ idx = 0
    /\ bubbleIdx = 0
    /\ cur = PyNone
    /\ conversations = <<>>
    /\ outcome = Pending
    /\ exitAt = "running"

Init ==
    /\ store \in StoreInputs
    /\ PipelineStart
    /\ FunctionsIdle

Spec == Init /\ [][Next]_vars

InitFirstMessage ==
    /\ store \in {<<JsonStr(RecordWithBubbles(b))>> : b \in BubblesInputs}
    /\ PipelineStart
    /\ FunctionsIdle

SpecFirstMessage == InitFirstMessage /\ [][Next]_vars

-----------------------------------------------------------------------------
(* The pure functions, each applied to an input *)

PipelineIdle ==
    /\ store = <<>>
    /\ pc = "idle"
    /\ conn = "none"
    /\ idx = 0
    /\ bubbleIdx = 0
    /\ cur = PyNone
    /\ conversations = <<>>
    /\ outcome = Pending
    /\ exitAt = "idle"

pipelineVars ==
    <<store, pc, conn, idx, bubbleIdx, cur, conversations, outcome, exitAt>>

InitRichtext ==
    /\ rtIn \in RichtextInputs
    /\ rtOut = Pending
    /\ wsIn = PyNone
    /\ wsOut = Pending
    /\ PipelineIdle

DecodeRichtext ==
    /\ rtOut = Pending
    /\ rtOut' = extract_text_from_richtext(rtIn)
    /\ UNCHANGED <<rtIn, wsIn, wsOut, pipelineVars>>

NextRichtext == DecodeRichtext

SpecRichtext == InitRichtext /\ [][NextRichtext]_vars

InitWorkspace ==
    /\ wsIn \in WorkspaceInputs
    /\ wsOut = Pending
    /\ rtIn = PyNone
    /\ rtOut = Pending
    /\ PipelineIdle

InferWorkspace ==
    /\ wsOut = Pending
    /\ wsOut' = get_workspace_from_uri(wsIn)
    /\ UNCHANGED <<rtIn, rtOut, wsIn, pipelineVars>>

NextWorkspace == InferWorkspace

SpecWorkspace == InitWorkspace /\ [][NextWorkspace]_vars

-----------------------------------------------------------------------------
(* Properties *)

Done == pc = "done"

\* The invocation met a storage-level failure: no database file, or a
\* sqlite3.Error from connect, from the main scan or from a lookup
StorageFault ==
    \/ exitAt \in {"db_missing", "connect", "scan"}
    \/ exitAt = "bubbles" /\ outcome.exc = "none"

IsRecord(value) == value.t = "json" /\ value.doc.t = "dict"

\* The record's field key is a timestamp inside [start_ms, end_ms)
TimeInside(value, key) ==
    /\ Has(value.doc, key)
    /\ Item(value.doc, key).t = "int"
    /\ start_ms <= Item(value.doc, key).n
    /\ Item(value.doc, key).n < end_ms

\* The record's field key, 0 when absent, is a timestamp outside the window
TimeOutside(value, key) ==
    LET x == Get(value.doc, key, PyInt(0))
    IN  x.t = "int" /\ (x.n < start_ms \/ x.n >= end_ms)

Qualifies(value) ==
    IsRecord(value)
    /\ (TimeInside(value, KCreatedAt) \/ TimeInside(value, KLastUpdatedAt))

BothOutside(value) ==
    IsRecord(value)
    /\ TimeOutside(value, KCreatedAt) /\ TimeOutside(value, KLastUpdatedAt)

\* The sequence the invocation returned; nothing when it raised
Returned == IF outcome.exc = "none" THEN outcome.val ELSE <<>>

\* The summaries returned that were built from row i of the store
SummariesOf(i) == {j \in 1..Len(Returned) : Returned[j].row = i}

\* C1: for any store contents, the function returns exactly one summary for
\* every record with createdAt or lastUpdatedAt inside [start_ms, end_ms) and
\* none for a record with both outside it (a storage-level failure aside).
C1_WindowedRecordsReturnedOnce ==
    (Done /\ ~StorageFault) =>
        \A i \in 1..Len(store) :
            /\ Qualifies(store[i]) => Cardinality(SummariesOf(i)) = 1
            /\ BothOutside(store[i]) => SummariesOf(i) = {}

\* A record every field of which has the type the pipeline expects
WellFormed(value) ==
    /\ IsRecord(value)
    /\ Get(value.doc, KCreatedAt, PyInt(0)).t = "int"
    /\ Get(value.doc, KLastUpdatedAt, PyInt(0)).t = "int"
    /\ Get(value.doc, KModelConfig, EmptyDict).t = "dict"
    /\ Get(value.doc, KCodeBlockData, EmptyDict).t = "dict"
    /\ Get(value.doc, KHeaders, PyList(<<>>)).t = "list"

\* C2: no exception propagates out of extract_todays_conversations, and a
\* malformed record costs no well-formed in-window record of the same scan
\* its summary.
C2_NoExceptionPropagates ==
    Done =>
        /\ outcome.exc = "none"
        /\ ~StorageFault =>
              \A i \in 1..Len(store) :
                  (WellFormed(store[i]) /\ Qualifies(store[i])) =>
                      SummariesOf(i) # {}

\* C3: on every exit path after the connection has been opened, the
\* connection is closed when the function returns.
C3_ConnectionClosedOnExit ==
    Done => conn # "open"

\* The loop of get_first_user_message is at a user-typed stub with an id: the
\* stub whose body is looked up and decoded
AtLookedUpStub ==
    LET items == iterate(cur.bubbles)
        bubble == items.val[bubbleIdx]
    IN  /\ cur # PyNone
        /\ items.exc = "none"
        /\ bubbleIdx \in 1..Len(items.val)
        /\ bubble.t = "dict"
        /\ Get(bubble, KType, PyNone) = PyInt(1)
        /\ Truthy(Get(bubble, KBubbleId, PyNone))

\* C4: a failed lookup or a failed decoding of a user stub's body counts as
\* no text for the stub: the invocation never ends at such a stub.
C4_StubFailureDoesNotAbort ==
    ~(Done /\ exitAt = "bubbles" /\ AtLookedUpStub)

\* The decoded text of a stub that is user-typed, has an id, has a stored
\* body and rich text; <<>> for any other stub
StubText(composer_id, bubble) ==
    LET fetched == fetchone(BubbleTable,
                            bubble_key(composer_id, Item(bubble, KBubbleId)))
        body == fetched.value
        decoded == extract_text_from_richtext(Item(body.doc, KRichText))
    IN  IF /\ bubble.t = "dict"
           /\ Get(bubble, KType, PyNone) = PyInt(1)
           /\ Truthy(Get(bubble, KBubbleId, PyNone))
           /\ fetched.row
           /\ body.t = "json"
           /\ body.doc.t = "dict"
           /\ Has(body.doc, KRichText)
           /\ decoded.exc = "none"
        THEN decoded.val.s
        ELSE <<>>

\* The text of the lowest-index stub with non-empty text, truncated; <<>>
\* when there is none
ExpectedFirstMessage(composer_id, bubbles) ==
    LET good == {j \in 1..Len(bubbles) : StubText(composer_id, bubbles[j]) # <<>>}
        first == CHOOSE j \in good : \A g \in good : j <= g
    IN  IF good = {} THEN <<>>
        ELSE truncate(StubText(composer_id, bubbles[first]))

\* get_first_user_message has ended for the current row
FirstMessageEnded ==
    pc = "finish" \/ (Done /\ exitAt = "bubbles")

StubSequence(bubbles) ==
    bubbles.t = "list" /\ \A j \in 1..Len(bubbles.items) : bubbles.items[j].t = "dict"

\* C5: for every stub sequence, get_first_user_message returns the truncated
\* text of the lowest-index qualifying stub, and the empty string when no
\* stub qualifies (a storage-level failure aside).
C5_FirstQualifyingStubWins ==
    (FirstMessageEnded /\ ~StorageFault /\ StubSequence(cur.bubbles)) =>
        /\ pc = "finish"
        /\ cur.first_message = ExpectedFirstMessage(cur.composer_id, cur.bubbles.items)

\* C6: a decoded text longer than 500 characters is returned as its first 500
\* characters followed by "...", 503 characters in all; a text of at most
\* 500 characters is returned unmodified; no summary carries a first_message
\* longer than 503 characters.
C6_Truncation ==
    /\ (pc = "finish" /\ cur.text # <<>>) =>
          /\ Len(cur.text) > 500 =>
                /\ cur.first_message = SubSeq(cur.text, 1, 500) \o <<".", ".", ".">>
                /\ Len(cur.first_message) = 503
          /\ Len(cur.text) <= 500 => cur.first_message = cur.text
    /\ \A j \in 1..Len(conversations) :
          Len(conversations[j].first_message.s) <= 503

C6_Witness ==
    /\ pc = "finish"
    /\ Len(cur.text) = 501
    /\ Len(cur.first_message) = 503

\* A record that qualifies by its lastUpdatedAt and has no createdAt
QualifiesWithoutCreation(value) ==
    /\ IsRecord(value)
    /\ ~Has(value.doc, KCreatedAt)
    /\ TimeInside(value, KLastUpdatedAt)

\* C7: the sequence returned is ascending in timestamp_ms, summaries of equal
\* timestamp_ms keep their scan order, and a qualifying record with no
\* creation timestamp is in it, with created_at "unknown" and timestamp 0.
C7_SortedStableResult ==
    (Done /\ outcome.exc = "none") =>
        LET result == outcome.val
        IN  /\ \A j \in 1..(Len(result) - 1) :
                  result[j].timestamp_ms.n <= result[j + 1].timestamp_ms.n
            /\ \A j, k \in 1..Len(result) :
                  (j < k /\ result[j].timestamp_ms = result[k].timestamp_ms) =>
                      result[j].row < result[k].row
            /\ exitAt = "end" =>
                  \A i \in 1..Len(store) :
                      QualifiesWithoutCreation(store[i]) =>
                          \E j \in 1..Len(result) :
                              /\ result[j].row = i
                              /\ result[j].created_at = Unknown
                              /\ result[j].timestamp_ms = PyInt(0)

\* Three summaries: the record without creation time, scanned last, comes
\* first; the two of equal timestamp follow in scan order
C7_Witness ==
    /\ Done
    /\ exitAt = "end"
    /\ Len(outcome.val) = 3
    /\ outcome.val[1].row = 3
    /\ outcome.val[1].created_at = Unknown
    /\ QualifiesWithoutCreation(store[3])
    /\ outcome.val[2].timestamp_ms = outcome.val[3].timestamp_ms
    /\ outcome.val[2].row = 1
    /\ outcome.val[3].row = 2

PathProj ==
    <<"/", "U", "s", "e", "r", "s", "/", "a", "/", "w", "o", "r", "k", "s",
      "p", "a", "c", "e", "/", "p", "r", "o", "j">>
PathProjSrc == PathProj \o <<"/", "s", "r", "c">>

\* The keys of a mapping that begin with the file-URI prefix, in order
FileKeys(mapping) == SelectSeq(mapping.k, LAMBDA key : startswith(key, FilePrefix))

WorkspaceReturned == wsOut # Pending /\ wsIn.t = "dict"

\* C8, as claimed: a mapping whose file-URI key is
\* file:///Users/a/workspace/proj/src/x.py gives /Users/a/workspace/proj, and
\* a mapping whose only key is file:///a/b/c gives None.
C8_Original ==
    WorkspaceReturned =>
        /\ FileKeys(wsIn) = <<UriProjFile>> => wsOut = Ret(PyStr(PathProj))
        /\ wsIn.k = <<UriThree>> => wsOut = Ret(PyNone)

\* C8, amended: the first mapping gives /Users/a/workspace/proj/src, the path
\* through the two segments after "workspace"; the second gives None.
C8_ExampleWorkspaces ==
    WorkspaceReturned =>
        /\ FileKeys(wsIn) = <<UriProjFile>> => wsOut = Ret(PyStr(PathProjSrc))
        /\ wsIn.k = <<UriThree>> => wsOut = Ret(PyNone)

C8_Witness ==
    /\ wsIn = Mapping(<<UriProjFile>>)
    /\ wsOut = Ret(PyStr(PathProjSrc))

\* The path of the key satisfies the "workspace"-segment rule or the
\* more-than-4-segments fallback
SatisfiesRule(key) ==
    LET parts == split(replace(key, FileScheme, <<>>), "/")
    IN  \/ \E j \in 1..Len(parts) :
              parts[j] = WorkspaceSegment /\ j + 1 < Len(parts)
        \/ Len(parts) > 4

\* C10, as claimed: when the first file-URI key is too short for both rules
\* the result is None, whatever file-URI keys follow.
C10_Original ==
    (WorkspaceReturned /\ FileKeys(wsIn) # <<>>
        /\ ~SatisfiesRule(FileKeys(wsIn)[1])) => wsOut = Ret(PyNone)

\* C10, amended: the result is the workspace of the first file-URI key, in
\* iteration order, whose path satisfies either rule; a file-URI key too
\* short for both is passed over, and the result is None only when no
\* file-URI key satisfies a rule.
C10_FirstSufficientKey ==
    WorkspaceReturned =>
        LET keys == SelectSeq(FileKeys(wsIn), SatisfiesRule)
        IN  /\ wsOut.exc = "none"
            /\ keys = <<>> => wsOut.val = PyNone
            /\ keys # <<>> =>
                  /\ wsOut.val # PyNone
                  /\ wsOut.val = workspace_of_key(keys[1])

C10_Witness ==
    /\ wsIn = Mapping(<<UriThree, UriFive>>)
    /\ wsOut = Ret(PyStr(<<"/", "a", "/", "b", "/", "c", "/", "d">>))

\* The rich-text input is no JSON document, or a document with no KRoot key
NoRoot(richtext_json) ==
    \/ richtext_json.t # "json"
    \/ richtext_json.doc.t # "dict"
    \/ ~Has(richtext_json.doc, KRoot)

=============================================================================
